---- MODULE Spec2Model ----
(***************************************************************************)
(* A model of StringFormatter (formatter.h): the printf-style scan of a    *)
(* format string against a typed argument list, writing into a             *)
(* std::ostream.                                                           *)
(*                                                                         *)
(* Characters are one-character strings; the terminating NUL of a C string *)
(* is the empty string.  The stream is a record holding the bytes written  *)
(* so far and the formatting state of std::ios_base.  The recursion of the *)
(* variadic format() over its parameter pack is the index idx of the next  *)
(* unconsumed argument: idx > Len(args) is the overload without arguments. *)
(* The local used_value of format() is false whenever its test at line 420 *)
(* is reached (line 409 sets it and line 412 returns), so it is no state.  *)
(*                                                                         *)
(* Arguments are of two C++ types: int (integral, signed, no pointer, no   *)
(* container) and const char* (pointer, not integral, no container).       *)
(***************************************************************************)
EXTENDS Integers, Sequences, FiniteSets, TLC

VARIABLES
    fmt,     \* StringFormatter::fmt (line 201), without its terminator
    args,    \* StringFormatter::args (line 202)
    os,      \* the std::ostream the call writes to
    p,       \* the cursor p of format() (lines 235, 308), an index into fmt
    idx,     \* the index in args of value, the first parameter of format()
    status,  \* "run", "ok", the exception thrown, or "Overrun"
    call,    \* "first", or which second call runs: "same_sink", "new_buffer"
    start,   \* os as the current call found it
    first,   \* the bytes and the outcome of the first call, for the second
    rd       \* the highest index of the bytes at fmt the current call read

vars == <<fmt, args, os, p, idx, status, call, start, first, rd>>

----------------------------------------------------------------------------
(* Bounds of the checked inputs *)

MaxPieces == 3
MaxFields == 2
MaxArgs == 2
TailLen == 1

----------------------------------------------------------------------------
(* Characters and memory *)

NUL == ""

\* what a read outside the modelled bytes yields: no character at all
BEYOND == "<unmapped>"

Digits == <<"0", "1", "2", "3", "4", "5", "6", "7", "8", "9">>
LowerHex == Digits \o <<"a", "b", "c", "d", "e", "f">>
UpperHex == Digits \o <<"A", "B", "C", "D", "E", "F">>

IsDigit(c) == \E i \in 1..10 : Digits[i] = c
DigitVal(c) == (CHOOSE i \in 1..10 : Digits[i] = c) - 1

\* the bytes at fmt: the string, its terminator, and what happens to follow it
Mem(f, tail) == f \o <<NUL>> \o tail

\* *p for the byte at index i
Rd(m, i) == IF i \in 1..Len(m) THEN m[i] ELSE BEYOND

\* the byte of the C string f at index i
Ch(f, i) == Rd(Mem(f, <<>>), i)

\* bytes that may follow the terminator in memory
GarbageChars == {NUL, "d", "Q", "6"}

RECURSIVE SeqsOfLen(_, _)
SeqsOfLen(S, n) ==
    IF n = 0 THEN {<<>>}
    ELSE {s \o <<c>> : s \in SeqsOfLen(S, n - 1), c \in S}

Tails == SeqsOfLen(GarbageChars, TailLen)

----------------------------------------------------------------------------
(* strtol(p, &q, 10) *)

RECURSIVE SkipSpace(_, _)
SkipSpace(m, i) == IF Rd(m, i) = " " THEN SkipSpace(m, i + 1) ELSE i

RECURSIVE DigitsEnd(_, _)
DigitsEnd(m, i) == IF IsDigit(Rd(m, i)) THEN DigitsEnd(m, i + 1) ELSE i

RECURSIVE DigitsVal(_, _, _, _)
DigitsVal(m, i, e, acc) ==
    IF i >= e THEN acc ELSE DigitsVal(m, i + 1, e, acc * 10 + DigitVal(m[i]))

\* [val, q, rd]: the value, the end pointer, and the last byte examined.
\* No digits: no conversion, value 0 and q = p.
strtol(m, i) ==
    LET s == SkipSpace(m, i)
        neg == Rd(m, s) = "-"
        d0 == IF Rd(m, s) \in {"-", "+"} THEN s + 1 ELSE s
        e == DigitsEnd(m, d0)
        v == DigitsVal(m, d0, e, 0)
    IN  [val |-> IF e = d0 THEN 0 ELSE IF neg THEN 0 - v ELSE v,
         q |-> IF e = d0 THEN i ELSE e,
         rd |-> e]

----------------------------------------------------------------------------
(* The specifier parser, formatter.h lines 317-373 *)

SizeChars == {"q", "h", "l", "L", "z", "j", "t"}

\* while (std::strchr("qhlLzjt", *p)) p++;
\* strchr finds the terminator of its first argument when *p is NUL.
RECURSIVE SkipSize(_, _)
SkipSize(m, i) ==
    IF Rd(m, i) \in SizeChars \cup {NUL} THEN SkipSize(m, i + 1) ELSE i

Max(a, b) == IF a >= b THEN a ELSE b

\* The locals of format() while it parses one specifier: p is the cursor and
\* rd the highest index read so far.  i is the index of the byte after '%'.
SpecStart(i) ==
    [leftadjust |-> FALSE, forcesign |-> FALSE, padchar |-> " ",
     width |-> 0, havewidth |-> FALSE, precision |-> 0,
     haveprecision |-> FALSE, type |-> NUL, p |-> i, rd |-> i]

\* lines 318-322
ParseLeftAdjust(m, sp) ==
    IF Rd(m, sp.p) = "-"
    THEN [sp EXCEPT !.leftadjust = TRUE, !.p = @ + 1, !.rd = sp.p + 1]
    ELSE sp

\* lines 323-332
ParseForceSign(m, sp) ==
    IF Rd(m, sp.p) = "+"
    THEN [sp EXCEPT !.forcesign = TRUE, !.p = @ + 1, !.rd = sp.p + 1]
    ELSE IF Rd(m, sp.p) = " " THEN [sp EXCEPT !.p = @ + 1, !.rd = sp.p + 1]
    ELSE sp

\* lines 336-339
ParsePadChar(m, sp) ==
    IF Rd(m, sp.p) \in {"0", ","}
    THEN [sp EXCEPT !.padchar = Rd(m, sp.p), !.p = @ + 1, !.rd = sp.p + 1]
    ELSE sp

\* lines 345-347
ParseWidth(m, sp) ==
    [sp EXCEPT !.width = strtol(m, sp.p).val,
               !.havewidth = sp.p # strtol(m, sp.p).q,
               !.p = strtol(m, sp.p).q,
               !.rd = strtol(m, sp.p).rd]

\* lines 350-358
ParsePrecision(m, sp) ==
    IF Rd(m, sp.p) = "."
    THEN [sp EXCEPT !.precision = strtol(m, sp.p + 1).val,
                    !.haveprecision = sp.p + 1 # strtol(m, sp.p + 1).q,
                    !.p = strtol(m, sp.p + 1).q,
                    !.rd = strtol(m, sp.p + 1).rd]
    ELSE sp

\* lines 361-362
ParseSize(m, sp) ==
    [sp EXCEPT !.p = SkipSize(m, sp.p), !.rd = SkipSize(m, sp.p)]

\* lines 363-369: p++, then skip two more bytes when p[1] is '6' or '4'
ParseMsSize(m, sp) ==
    IF Rd(m, sp.p) = "I"
    THEN IF Rd(m, sp.p + 2) \in {"6", "4"}
         THEN [sp EXCEPT !.p = @ + 3, !.rd = sp.p + 3]
         ELSE [sp EXCEPT !.p = @ + 1, !.rd = sp.p + 2]
    ELSE sp

\* lines 371-373
ParseType(m, sp) ==
    IF Rd(m, sp.p) # NUL
    THEN [sp EXCEPT !.type = Rd(m, sp.p), !.p = @ + 1]
    ELSE sp

\* lines 317-373
ParseSpec(m, i) ==
    ParseType(m, ParseMsSize(m, ParseSize(m, ParsePrecision(m,
        ParseWidth(m, ParsePadChar(m, ParseForceSign(m,
            ParseLeftAdjust(m, SpecStart(i)))))))))

----------------------------------------------------------------------------
(* The stream: std::ostream as formatter.h uses it *)

\* a newly constructed stream (std::basic_ios::init): dec, no adjustfield
\* bit, fill ' ', precision 6, width 0
NewStream ==
    [out |-> <<>>, base |-> "dec", adjust |-> "none", fill |-> " ",
     showpos |-> FALSE, uppercase |-> FALSE, floatfield |-> "none",
     width |-> 0, precision |-> 6]

RECURSIVE Fill(_, _)
Fill(c, n) == IF n <= 0 THEN <<>> ELSE <<c>> \o Fill(c, n - 1)

\* A formatted insertion of text: padded with the fill character up to
\* width(), after the text under std::left and before it otherwise, and
\* width() is 0 afterwards.
Insert(s, text) ==
    LET pad == Fill(s.fill, s.width - Len(text))
    IN  [s EXCEPT !.out = @ \o (IF s.adjust = "left" THEN text \o pad
                                ELSE pad \o text),
                  !.width = 0]

\* os << c for a char c (lines 240, 247, 313, 416)
PutChar(s, c) == Insert(s, <<c>>)

RECURSIVE DigitsOf(_, _, _)
DigitsOf(n, b, tab) ==
    IF n < b THEN <<tab[n + 1]>>
    ELSE DigitsOf(n \div b, b, tab) \o <<tab[(n % b) + 1]>>

\* the len low digits of n in base b, each as its index in a digit table
RECURSIVE DigitValues(_, _, _)
DigitValues(n, b, len) ==
    IF len = 0 THEN <<>>
    ELSE DigitValues(n \div b, b, len - 1) \o <<(n % b) + 1>>

\* the digits of 2^bits + v for a negative v, in base 16 or 8: the digitwise
\* complement of -v - 1 (the top octal digit holds bits % 3 bits only)
TwosComplement(v, b, bits, tab) ==
    LET n == (0 - v) - 1
        len == IF b = 16 THEN bits \div 4 ELSE (bits + 2) \div 3
        ds == DigitValues(n, b, len)
        top == IF b = 16 THEN 16
               ELSE IF bits % 3 = 1 THEN 2 ELSE IF bits % 3 = 2 THEN 4 ELSE 8
    IN  <<tab[top - (ds[1] - 1)]>> \o
        [k \in 1..(len - 1) |-> tab[b - (ds[k + 1] - 1)]]

\* the text num_put produces for a signed integer of the given size
IntText(s, v, bits) ==
    LET tab == IF s.uppercase THEN UpperHex ELSE LowerHex
    IN  IF s.base = "dec"
        THEN IF v < 0 THEN <<"-">> \o DigitsOf(0 - v, 10, tab)
             ELSE (IF s.showpos THEN <<"+">> ELSE <<>>) \o DigitsOf(v, 10, tab)
        ELSE LET b == IF s.base = "hex" THEN 16 ELSE 8
             IN  IF v < 0 THEN TwosComplement(v, b, bits, tab)
                 ELSE DigitsOf(v, b, tab)

\* os << (const void*)value: "0x" and the address in lower-case hex
PointerText(a) == <<"0", "x">> \o DigitsOf(a, 16, LowerHex)

\* string::convert<char> of one wide character: the code unit itself for
\* ASCII, a replacement mark for what is no code point
convert(v) == IF v = 107 THEN <<"k">> ELSE <<"?">>

----------------------------------------------------------------------------
(* Arguments *)

IntArg(v) == [cat |-> "int", val |-> v, text |-> <<>>]
CStrArg(a, t) == [cat |-> "cstr", val |-> a, text |-> t]

is_integral(a) == a.cat = "int"
is_pointer(a) == a.cat = "cstr"
is_container(a) == FALSE
is_hexdumper(a) == FALSE

----------------------------------------------------------------------------
(* applytype, formatter.h lines 251-302 *)

TypeChars == {"b", "i", "d", "u", "o", "x", "X", "f", "F", "g", "G",
              "a", "A", "e", "E", "c", "s", "p"}

\* 'A' <= type && type <= 'Z'
UpperCaseLetters ==
    {"A", "B", "C", "D", "E", "F", "G", "H", "I", "J", "K", "L", "M",
     "N", "O", "P", "Q", "R", "S", "T", "U", "V", "W", "X", "Y", "Z"}

\* the default: branch of the switch throws
applytypeThrows(type) == type \notin TypeChars

applytype(s, type) ==
    LET s1 == IF type \in {"i", "d", "u"} THEN [s EXCEPT !.base = "dec"]
              ELSE IF type = "o" THEN [s EXCEPT !.base = "oct"]
              ELSE IF type \in {"x", "X"} THEN [s EXCEPT !.base = "hex"]
              ELSE IF type \in {"f", "F"} THEN [s EXCEPT !.floatfield = "fixed"]
              ELSE IF type \in {"g", "G"} THEN [s EXCEPT !.floatfield = "none"]
              ELSE IF type \in {"a", "A"} THEN [s EXCEPT !.floatfield = "hexfloat"]
              ELSE IF type \in {"e", "E"} THEN [s EXCEPT !.floatfield = "scientific"]
              ELSE s
    IN  [s1 EXCEPT !.uppercase = (type \in UpperCaseLetters)]

\* Configure without line 388: a width does not restore right alignment
ConfigureKeepsAdjust(s, spec) ==
    LET s1 == applytype(s, spec.type)
        s2 == [s1 EXCEPT !.showpos = spec.forcesign]
        s3 == IF spec.leftadjust THEN [s2 EXCEPT !.adjust = "left"] ELSE s2
        s4 == [s3 EXCEPT !.width = IF spec.havewidth THEN spec.width ELSE 0]
        s5 == IF spec.haveprecision
              THEN [s4 EXCEPT !.precision = spec.precision] ELSE s4
    IN  [s5 EXCEPT !.fill = spec.padchar]

\* "use formatting", formatter.h lines 375-396
Configure(s, spec) ==
    LET s1 == applytype(s, spec.type)
        s2 == [s1 EXCEPT !.showpos = spec.forcesign]
        s3 == IF spec.leftadjust THEN [s2 EXCEPT !.adjust = "left"] ELSE s2
        s4 == IF spec.havewidth
              THEN [s3 EXCEPT !.width = spec.width,
                              !.adjust = IF spec.leftadjust THEN @ ELSE "right"]
              ELSE [s3 EXCEPT !.width = 0]
        s5 == IF spec.haveprecision
              THEN [s4 EXCEPT !.precision = spec.precision] ELSE s4
    IN  [s5 EXCEPT !.fill = spec.padchar]

----------------------------------------------------------------------------
(* The dispatch on the type character and the static type of the argument, *)
(* formatter.h lines 398-407 and 426-470                                   *)

add_wchar(s, a) == IF is_integral(a) THEN Insert(s, convert(a.val)) ELSE s

add_pointer(s, a) == IF is_pointer(a) THEN Insert(s, PointerText(a.val)) ELSE s

\* neither argument type is a container or a Hex::Hexdumper
hex_dump_data(s, a) == s

\* os << (long long)value
output_int(s, a) == IF is_integral(a) THEN Insert(s, IntText(s, a.val, 64)) ELSE s

\* os << value: an int goes through num_put as a 32-bit value, a const char*
\* is written as text
PutValue(s, a) ==
    IF a.cat = "int" THEN Insert(s, IntText(s, a.val, 32)) ELSE Insert(s, a.text)

Dispatch(s, type, a) ==
    IF type = "c" THEN add_wchar(s, a)
    ELSE IF type = "p" THEN add_pointer(s, a)
    ELSE IF type = "b" THEN hex_dump_data(s, a)
    ELSE IF type \in {"i", "d", "u", "o", "x", "X"} THEN output_int(s, a)
    ELSE PutValue(s, a)

----------------------------------------------------------------------------
(* format, formatter.h lines 233-250 and 304-422, as one function: the     *)
(* stream and the outcome of scanning f from index i with the arguments    *)
(* a[k], a[k+1], ...  A parse that reads behind the terminator ends it as  *)
(* "Overrun".                                                              *)

RECURSIVE format(_, _, _, _, _)
format(s, f, a, i, k) ==
    IF Rd(Mem(f, <<>>), i) = NUL
    THEN [os |-> s, status |-> IF k > Len(a) THEN "ok" ELSE "TooManyArguments"]
    ELSE IF Rd(Mem(f, <<>>), i) # "%"
    THEN format(PutChar(s, f[i]), f, a, i + 1, k)
    ELSE IF Rd(Mem(f, <<>>), i + 1) = "%"
    THEN format(PutChar(s, "%"), f, a, i + 2, k)
    ELSE IF k > Len(a)
    THEN [os |-> s, status |-> "NotEnoughArguments"]
    ELSE IF ParseSpec(Mem(f, <<>>), i + 1).rd > Len(f) + 1
    THEN [os |-> s, status |-> "Overrun"]
    ELSE IF applytypeThrows(ParseSpec(Mem(f, <<>>), i + 1).type)
    THEN [os |-> s, status |-> "UnknownConversionChar"]
    ELSE format(Dispatch(Configure(s, ParseSpec(Mem(f, <<>>), i + 1)),
                         ParseSpec(Mem(f, <<>>), i + 1).type, a[k]),
                f, a, ParseSpec(Mem(f, <<>>), i + 1).p, k + 1)

\* stringformat, lines 483-490: a new stringstream, and what it holds
stringformat(f, a) == format(NewStream, f, a, 1, 1)

----------------------------------------------------------------------------
(* Inputs *)

\* pieces of format strings; a format string is up to MaxPieces of them
Pieces ==
    { <<"%">>, <<"k">>, <<"d">>, <<"-">>, <<".">>, <<"-", "5", "d">>,
      <<"%", "x">>, <<"%", "s">>, <<"%", "5", "p">>, <<"%", "l", "d">>,
      <<"%", "I", "3", "2", "d">> }

\* whole integer fields with a width, for the claims about padding and failure
FieldPieces ==
    { <<"%">>, <<"k">>, <<"%", "d">>, <<"%", "5", "d">>,
      <<"%", "-", "5", "d">>, <<"%", "0", "5", "d">>,
      <<"%", "-", ",", "2", "d">>, <<"%", "0", "0", "d">>,
      <<"%", "-", "x">> }

\* fields that write nothing for an int or for a const char*
NoOpPieces ==
    { <<"%">>, <<"k">>, <<"%", "2", "b">>, <<"%", "5", "p">>, <<"%", "c">>,
      <<"%", "d">>, <<"%", "-", "x">> }

\* specifiers that the end of the string cuts off, and whole ones
CutOffPieces ==
    { <<"%">>, <<"k">>, <<"%", "I">>, <<"%", "l">>, <<"%", "5">>,
      <<"%", ".">>, <<"%", "d">>, <<"%", "I", "d">>, <<"%", "I", "6", "4", "d">> }

RECURSIVE FmtsOf(_, _)
FmtsOf(P, n) ==
    IF n = 0 THEN {<<>>}
    ELSE LET prev == FmtsOf(P, n - 1)
         IN  prev \cup {f \o pc : f \in prev, pc \in P}

ArgValues == {IntArg(107), IntArg(0 - 5), CStrArg(26, <<"a", "b">>)}

FieldArgValues == {IntArg(0 - 5), CStrArg(26, <<"a", "b">>)}

RECURSIVE ArgsOf(_, _)
ArgsOf(V, n) ==
    IF n = 0 THEN {<<>>}
    ELSE LET prev == ArgsOf(V, n - 1)
         IN  prev \cup {l \o <<a>> : l \in prev, a \in V}

----------------------------------------------------------------------------
(* The state machine of a format call *)

\* the bytes of the current call that are in the sink
Written == SubSeq(os.out, Len(start.out) + 1, Len(os.out))

Finished == status \in {"ok", "NotEnoughArguments", "TooManyArguments",
                        "UnknownConversionChar"}

\* *p == '%' and the byte after it is not '%'
AtSpecifier ==
    /\ status = "run"
    /\ Rd(Mem(fmt, <<>>), p) = "%"
    /\ Rd(Mem(fmt, <<>>), p + 1) # "%"

\* the bytes after the terminator matter only to a parse that reads them
TailsFor(f, i) ==
    IF ParseSpec(Mem(f, <<>>), i + 1).rd > Len(f) + 1 THEN Tails ELSE {<<>>}

InitWith(F, A) ==
    /\ fmt \in F
    /\ args \in A
    /\ os = NewStream
    /\ p = 1
    /\ idx = 1
    /\ status = "run"
    /\ call = "first"
    /\ start = NewStream
    /\ first = [out |-> <<>>, status |-> "none"]
    /\ rd = 0

Init == InitWith(FmtsOf(Pieces, MaxPieces), ArgsOf(ArgValues, MaxArgs))

InitFields ==
    InitWith(FmtsOf(FieldPieces, MaxFields), ArgsOf(FieldArgValues, MaxArgs))

InitNoOp == InitWith(FmtsOf(NoOpPieces, MaxPieces), ArgsOf(ArgValues, MaxArgs))

InitCutOff ==
    InitWith(FmtsOf(CutOffPieces, MaxPieces), ArgsOf(FieldArgValues, MaxArgs))

\* lines 246-248 and 415-417: os << *p++
CopyLiteral ==
    /\ status = "run"
    /\ Rd(Mem(fmt, <<>>), p) \notin {NUL, "%"}
    /\ os' = PutChar(os, fmt[p])
    /\ p' = p + 1
    /\ rd' = Max(rd, p)
    /\ UNCHANGED <<fmt, args, idx, status, call, start, first>>

\* lines 237-241 and 310-314: "%%"
PercentPercent ==
    /\ status = "run"
    /\ Rd(Mem(fmt, <<>>), p) = "%"
    /\ Rd(Mem(fmt, <<>>), p + 1) = "%"
    /\ os' = PutChar(os, "%")
    /\ p' = p + 2
    /\ rd' = Max(rd, p + 1)
    /\ UNCHANGED <<fmt, args, idx, status, call, start, first>>

\* lines 242-244: a specifier in the overload without arguments
NotEnoughArguments ==
    /\ AtSpecifier
    /\ idx > Len(args)
    /\ status' = "NotEnoughArguments"
    /\ rd' = Max(rd, p + 1)
    /\ UNCHANGED <<fmt, args, os, p, idx, call, start, first>>

\* lines 315-376 and 295-296: applytype throws
ThrowUnknown ==
    /\ AtSpecifier
    /\ idx <= Len(args)
    /\ \E tail \in TailsFor(fmt, p) :
         LET spec == ParseSpec(Mem(fmt, tail), p + 1)
         IN  /\ spec.type # BEYOND
             /\ applytypeThrows(spec.type)
             /\ rd' = Max(rd, spec.rd)
    /\ status' = "UnknownConversionChar"
    /\ UNCHANGED <<fmt, args, os, p, idx, call, start, first>>

\* lines 315-412: parse, configure, dispatch, and go on with the remaining
\* arguments at the byte after the specifier
FormatSpecifier ==
    /\ AtSpecifier
    /\ idx <= Len(args)
    /\ \E tail \in TailsFor(fmt, p) :
         LET spec == ParseSpec(Mem(fmt, tail), p + 1)
         IN  /\ ~applytypeThrows(spec.type)
             /\ spec.p <= Len(fmt) + 1
             /\ os' = Dispatch(Configure(os, spec), spec.type, args[idx])
             /\ p' = spec.p
             /\ rd' = Max(rd, spec.rd)
    /\ idx' = idx + 1
    /\ UNCHANGED <<fmt, args, status, call, start, first>>

\* the same lines when the parse has run over the terminator: the type
\* character comes from the bytes behind the string, and the scan goes on
\* there (or the read faults)
OverrunSpecifier ==
    /\ AtSpecifier
    /\ idx <= Len(args)
    /\ \E tail \in TailsFor(fmt, p) :
         LET spec == ParseSpec(Mem(fmt, tail), p + 1)
         IN  \/ /\ spec.type = BEYOND
                /\ os' = os
                /\ p' = spec.p
                /\ idx' = idx
                /\ rd' = Max(rd, spec.rd)
             \/ /\ ~applytypeThrows(spec.type)
                /\ spec.p > Len(fmt) + 1
                /\ os' = Dispatch(Configure(os, spec), spec.type, args[idx])
                /\ p' = spec.p
                /\ idx' = idx + 1
                /\ rd' = Max(rd, spec.rd)
    /\ status' = "Overrun"
    /\ UNCHANGED <<fmt, args, call, start, first>>

\* line 236 fails in the overload without arguments: format returns
Return ==
    /\ status = "run"
    /\ Rd(Mem(fmt, <<>>), p) = NUL
    /\ idx > Len(args)
    /\ status' = "ok"
    /\ rd' = Max(rd, p)
    /\ UNCHANGED <<fmt, args, os, p, idx, call, start, first>>

\* TooManyArguments thrown as soon as no specifier is left, before the
\* literal text that remains is written
TooManyArgumentsEarly ==
    /\ status = "run"
    /\ Ch(fmt, p) # "%"
    /\ \A i \in p..Len(fmt) : fmt[i] # "%"
    /\ idx <= Len(args)
    /\ status' = "TooManyArguments"
    /\ rd' = Max(rd, p)
    /\ UNCHANGED <<fmt, args, os, p, idx, call, start, first>>

\* lines 309 and 420-421: the string ends in an overload that has a value
TooManyArguments ==
    /\ status = "run"
    /\ Rd(Mem(fmt, <<>>), p) = NUL
    /\ idx <= Len(args)
    /\ status' = "TooManyArguments"
    /\ rd' = Max(rd, p)
    /\ UNCHANGED <<fmt, args, os, p, idx, call, start, first>>

\* a second format(os, fmt, args...) into the sink of the first
FormatAgain ==
    /\ Finished
    /\ call = "first"
    /\ call' = "same_sink"
    /\ first' = [out |-> Written, status |-> status]
    /\ start' = os
    /\ p' = 1
    /\ idx' = 1
    /\ status' = "run"
    /\ rd' = 0
    /\ UNCHANGED <<fmt, args, os>>

\* a second stringformat(fmt, args...): lines 483-490, a new stringstream
StringFormatAgain ==
    /\ Finished
    /\ call = "first"
    /\ call' = "new_buffer"
    /\ first' = [out |-> Written, status |-> status]
    /\ os' = NewStream
    /\ start' = NewStream
    /\ p' = 1
    /\ idx' = 1
    /\ status' = "run"
    /\ rd' = 0
    /\ UNCHANGED <<fmt, args>>

Next ==
    \/ CopyLiteral
    \/ PercentPercent
    \/ NotEnoughArguments
    \/ ThrowUnknown
    \/ FormatSpecifier
    \/ OverrunSpecifier
    \/ Return
    \/ TooManyArguments
    \/ FormatAgain
    \/ StringFormatAgain

Spec == Init /\ [][Next]_vars

SpecFields == InitFields /\ [][Next]_vars

SpecNoOp == InitNoOp /\ [][Next]_vars

SpecCutOff == InitCutOff /\ [][Next]_vars

----------------------------------------------------------------------------
(* The steps of a call and format() as one function agree on every call    *)
(* that stays inside its format string.                                    *)

StepsAgreeWithFormat ==
    (Finished /\ rd <= Len(fmt) + 1) =>
        format(start, fmt, args, 1, 1) = [os |-> os, status |-> status]

----------------------------------------------------------------------------
(* The grammar of a specifier as the specification gives it:               *)
(*   %[-][+| ][0|,][width][.precision][length-modifiers]type               *)
(* with width and precision digit sequences and the length modifiers a run *)
(* of q h l L z j t or one of I, I32, I64.                                 *)

GSkipOne(f, i, S) == IF Ch(f, i) \in S THEN i + 1 ELSE i

GDigits(f, i) == DigitsEnd(Mem(f, <<>>), i)

GPrecision(f, i) == IF Ch(f, i) = "." THEN GDigits(f, i + 1) ELSE i

RECURSIVE GSizeRun(_, _)
GSizeRun(f, i) == IF Ch(f, i) \in SizeChars THEN GSizeRun(f, i + 1) ELSE i

GLength(f, i) ==
    IF Ch(f, i) = "I"
    THEN IF <<Ch(f, i + 1), Ch(f, i + 2)>> \in {<<"3", "2">>, <<"6", "4">>}
         THEN i + 3 ELSE i + 1
    ELSE GSizeRun(f, i)

\* where the length modifiers of the specifier start; i is the index after '%'
GModifiers(f, i) ==
    GPrecision(f, GDigits(f,
        GSkipOne(f, GSkipOne(f, GSkipOne(f, i, {"-"}), {"+", " "}), {"0", ","})))

\* where its type character stands
GType(f, i) == GLength(f, GModifiers(f, i))

WellFormedAt(f, i) == Ch(f, GType(f, i)) \in TypeChars

\* every specifier of f from index i on is well-formed
RECURSIVE WellFormed(_, _)
WellFormed(f, i) ==
    IF Ch(f, i) \in {NUL, BEYOND} THEN TRUE
    ELSE IF Ch(f, i) # "%" THEN WellFormed(f, i + 1)
    ELSE IF Ch(f, i + 1) = "%" THEN WellFormed(f, i + 2)
    ELSE WellFormedAt(f, i + 1) /\ WellFormed(f, GType(f, i + 1) + 1)

\* the number of real specifiers of a well-formed f from index i on
RECURSIVE NumSpecs(_, _)
NumSpecs(f, i) ==
    IF Ch(f, i) \in {NUL, BEYOND} THEN 0
    ELSE IF Ch(f, i) # "%" THEN NumSpecs(f, i + 1)
    ELSE IF Ch(f, i + 1) = "%" THEN NumSpecs(f, i + 2)
    ELSE 1 + NumSpecs(f, GType(f, i + 1) + 1)

\* the index of the '%' of the n-th real specifier from index i on
RECURSIVE SpecPos(_, _, _)
SpecPos(f, i, n) ==
    IF Ch(f, i) \in {NUL, BEYOND} THEN i
    ELSE IF Ch(f, i) # "%" THEN SpecPos(f, i + 1, n)
    ELSE IF Ch(f, i + 1) = "%" THEN SpecPos(f, i + 2, n)
    ELSE IF n = 1 THEN i
    ELSE SpecPos(f, GType(f, i + 1) + 1, n - 1)

----------------------------------------------------------------------------
(* C1: for a format string whose specifiers are all well-formed, the call  *)
(* returns without error iff the number of real specifiers equals the      *)
(* number of arguments; with fewer arguments it throws NotEnoughArguments  *)
(* at the first specifier without an argument, with more it throws         *)
(* TooManyArguments at the end of the format string.                       *)
C1_ArgumentCount ==
    (status # "run" /\ WellFormed(fmt, 1)) =>
        /\ (status = "ok") <=> (NumSpecs(fmt, 1) = Len(args))
        /\ NumSpecs(fmt, 1) > Len(args) =>
              /\ status = "NotEnoughArguments"
              /\ p = SpecPos(fmt, 1, Len(args) + 1)
        /\ NumSpecs(fmt, 1) < Len(args) =>
              /\ status = "TooManyArguments"
              /\ p = Len(fmt) + 1

(* C2: a specifier whose type character is missing or is not one of the    *)
(* recognised type characters makes the call fail with                     *)
(* UnknownConversionChar, whatever the number of unconsumed arguments.     *)
C2_UnknownConversionChar ==
    [][(AtSpecifier /\ Ch(fmt, GType(fmt, p + 1)) \notin TypeChars)
          => status' = "UnknownConversionChar"]_vars

\* f without the length modifiers of the specifier whose '%' is at index i
WithoutModifiers(f, i) ==
    SubSeq(f, 1, GModifiers(f, i + 1) - 1) \o SubSeq(f, GType(f, i + 1), Len(f))

\* a ConversionSpec: what the parser hands on, without its cursor
ConversionSpec(sp) == [sp EXCEPT !.p = 0, !.rd = 0]

(* C3: length modifiers are ignored: a well-formed specifier with length   *)
(* modifiers parses to the same ConversionSpec, raises no error, and gives *)
(* the same outcome and output as the specifier without them.              *)
C3_LengthModifiersIgnored ==
    (/\ AtSpecifier
     /\ idx <= Len(args)
     /\ WellFormedAt(fmt, p + 1)
     /\ GType(fmt, p + 1) > GModifiers(fmt, p + 1))
    => /\ ~applytypeThrows(ParseSpec(Mem(fmt, <<>>), p + 1).type)
       /\ ConversionSpec(ParseSpec(Mem(fmt, <<>>), p + 1)) =
          ConversionSpec(ParseSpec(Mem(WithoutModifiers(fmt, p), <<>>), p + 1))
       /\ ParseSpec(Mem(fmt, <<>>), p + 1).p = GType(fmt, p + 1) + 1
       /\ format(os, fmt, args, p, idx).status =
          format(os, WithoutModifiers(fmt, p), args, p, idx).status
       /\ format(os, fmt, args, p, idx).os.out =
          format(os, WithoutModifiers(fmt, p), args, p, idx).os.out

(* C4: after a specifier has configured the sink, every attribute it does  *)
(* not set is at its default: alignment right, fill space, base decimal,   *)
(* no forced sign; an int formatted with %s is then rendered in decimal.   *)
C4_SpecifierResetsState ==
    [][(AtSpecifier /\ status' = "run" /\ idx' = idx + 1)
          => /\ ~ParseSpec(Mem(fmt, <<>>), p + 1).leftadjust
                  => os'.adjust # "left"
             /\ os'.fill = ParseSpec(Mem(fmt, <<>>), p + 1).padchar
             /\ ParseSpec(Mem(fmt, <<>>), p + 1).type \notin {"o", "x", "X"}
                  => os'.base = "dec"
             /\ os'.showpos = ParseSpec(Mem(fmt, <<>>), p + 1).forcesign
             /\ (/\ ParseSpec(Mem(fmt, <<>>), p + 1).type = "s"
                 /\ ~ParseSpec(Mem(fmt, <<>>), p + 1).havewidth
                 /\ ~ParseSpec(Mem(fmt, <<>>), p + 1).forcesign
                 /\ is_integral(args[idx]))
                  => os'.out = os.out \o IntText(NewStream, args[idx].val, 32)
      ]_vars

(* C5: formatting the same format string and arguments a second time gives *)
(* the same bytes and the same outcome as the first time, into a new       *)
(* buffer and into the sink of the first call alike.                       *)
C5_Idempotent ==
    (call # "first" /\ Finished) =>
        /\ Written = first.out
        /\ status = first.status

(* C10: the width and the precision of every parsed ConversionSpec are     *)
(* unspecified or non-negative.                                            *)
C10_NonNegativeWidthPrecision ==
    (AtSpecifier /\ idx <= Len(args)) =>
        /\ ParseSpec(Mem(fmt, <<>>), p + 1).havewidth
             => ParseSpec(Mem(fmt, <<>>), p + 1).width >= 0
        /\ ParseSpec(Mem(fmt, <<>>), p + 1).haveprecision
             => ParseSpec(Mem(fmt, <<>>), p + 1).precision >= 0

(* C6: in a call that succeeds, every character outside a specifier is     *)
(* written to the sink as that one character, and "%%" is written as one   *)
(* '%' and consumes no argument, wherever it stands in the format string.  *)
C6_LiteralsVerbatim ==
    [][(status = "run" /\ format(start, fmt, args, 1, 1).status = "ok")
          => /\ Ch(fmt, p) \notin {NUL, "%"}
                  => os'.out = os.out \o <<fmt[p]>>
             /\ (Ch(fmt, p) = "%" /\ Ch(fmt, p + 1) = "%")
                  => (os'.out = os.out \o <<"%">> /\ idx' = idx)
      ]_vars

\* the specifier at index i (its '%') has the shape %[-][0|,][W]d
IntFieldEnd(f, i) ==
    GDigits(f, GSkipOne(f, GSkipOne(f, i + 1, {"-"}), {"0", ","}))

IsIntField(f, i) == Ch(f, IntFieldEnd(f, i)) = "d"

IntFieldLeft(f, i) == Ch(f, i + 1) = "-"

IntFieldPad(f, i) ==
    IF Ch(f, GSkipOne(f, i + 1, {"-"})) \in {"0", ","}
    THEN Ch(f, GSkipOne(f, i + 1, {"-"})) ELSE " "

IntFieldWidth(f, i) ==
    DigitsVal(f, GSkipOne(f, GSkipOne(f, i + 1, {"-"}), {"0", ","}),
              IntFieldEnd(f, i), 0)

\* the decimal text of an integer
DecimalText(v) ==
    IF v < 0 THEN <<"-">> \o DigitsOf(0 - v, 10, Digits)
    ELSE DigitsOf(v, 10, Digits)

\* the field the claim describes: the text, padded up to the width
PaddedField(text, w, pad, left) ==
    IF left THEN text \o Fill(pad, w - Len(text))
    ELSE Fill(pad, w - Len(text)) \o text

(* C7: a specifier %[-][0|,][W]d with an integer argument appends the      *)
(* decimal text of the argument, never truncated, padded to length         *)
(* max(W, L) with the pad character, before the text without '-' and after *)
(* it with '-', whatever the sink's state from earlier specifiers.         *)
C7_IntegerFieldWidth ==
    [][(/\ AtSpecifier
        /\ IsIntField(fmt, p)
        /\ idx <= Len(args)
        /\ is_integral(args[idx]))
          => /\ status' = "run"
             /\ idx' = idx + 1
             /\ p' = IntFieldEnd(fmt, p) + 1
             /\ os'.out = os.out \o
                  PaddedField(DecimalText(args[idx].val), IntFieldWidth(fmt, p),
                              IntFieldPad(fmt, p), IntFieldLeft(fmt, p))
             /\ Len(os'.out) - Len(os.out) =
                  Max(IntFieldWidth(fmt, p), Len(DecimalText(args[idx].val)))
      ]_vars

\* a right-aligned, padded field after a specifier that chose left alignment
\* and hexadecimal
C7_Witness ==
    /\ fmt = <<"%", "-", "x", "%", "5", "d">>
    /\ idx = 3
    /\ is_integral(args[1])
    /\ os.base = "dec"
    /\ os.adjust = "right"
    /\ SubSeq(Written, Len(Written) - 4, Len(Written)) =
         <<" ", " ", " ", "-", "5">>

NoOpCombination(tc, a) ==
    \/ tc = "c" /\ ~is_integral(a)
    \/ tc = "p" /\ ~is_pointer(a)
    \/ tc = "b" /\ ~(is_container(a) \/ is_hexdumper(a))
    \/ tc \in {"i", "d", "u", "o", "x", "X"} /\ ~is_integral(a)

\* f without the specifier whose '%' is at index i
WithoutSpecifier(f, i) ==
    SubSeq(f, 1, i - 1) \o SubSeq(f, GType(f, i + 1) + 1, Len(f))

\* a without its k-th element
WithoutArgument(a, k) == SubSeq(a, 1, k - 1) \o SubSeq(a, k + 1, Len(a))

(* C9: a specifier whose type character is a documented no-op for its      *)
(* argument raises no error, consumes one argument, writes nothing, and    *)
(* the call goes on to the outcome and output it has without that          *)
(* specifier and argument, also when the specifier carries a width.        *)
C9_NoOpCombinations ==
    (/\ AtSpecifier
     /\ idx <= Len(args)
     /\ WellFormedAt(fmt, p + 1)
     /\ NoOpCombination(Ch(fmt, GType(fmt, p + 1)), args[idx]))
    => /\ ~applytypeThrows(ParseSpec(Mem(fmt, <<>>), p + 1).type)
       /\ ParseSpec(Mem(fmt, <<>>), p + 1).p = GType(fmt, p + 1) + 1
       /\ Dispatch(Configure(os, ParseSpec(Mem(fmt, <<>>), p + 1)),
                   ParseSpec(Mem(fmt, <<>>), p + 1).type, args[idx]).out
            = os.out
       /\ format(os, fmt, args, p, idx).status =
          format(os, WithoutSpecifier(fmt, p), WithoutArgument(args, idx),
                 p, idx).status
       /\ format(os, fmt, args, p, idx).os.out =
          format(os, WithoutSpecifier(fmt, p), WithoutArgument(args, idx),
                 p, idx).os.out

----------------------------------------------------------------------------
(* C11: in every call the read cursor p stays at or before the terminating *)
(* NUL of the format string (index Len(fmt) + 1) and no byte behind the    *)
(* terminator is read, also while the length modifiers are skipped and     *)
(* while p[1] is inspected after 'I' in a specifier the string cuts off.   *)
C11_ScanStaysInsideFormat ==
    /\ p <= Len(fmt) + 1
    /\ rd <= Len(fmt) + 1

====
